---------------------------- MODULE Spec2Model ----------------------------
(***************************************************************************)
(* Model of the systemd service watcher (systemd_svc_watcher.py) and of    *)
(* the desktop notification relay (sys_desk_notif_d.py).                   *)
(*                                                                         *)
(* Strings of the program are sequences of one-character strings, so that  *)
(* split, strip, startswith, removeprefix, join and the regex match are    *)
(* computed rather than assumed.  Object states ("active", ...) are only   *)
(* compared for equality by the code and are kept as atomic strings.       *)
(*                                                                         *)
(* Environment.  The bus delivers signals in order, one handler run at a   *)
(* time.  An exception that leaves a D-Bus signal handler is logged by the *)
(* bus binding and the loop goes on; an exception that leaves main() or a  *)
(* Python signal handler reaches sys.excepthook.  The notification service *)
(* answers Notify with a positive id: a fresh one, or the replaced one.    *)
(* notify_proxy puts its keyword arguments on the bus as one dictionary.   *)
(*                                                                         *)
(* A Python signal handler runs in the main thread: while the process is   *)
(* in main() or idle in the loop, or, when the signal arrives during a     *)
(* blocking call of handle_dbus_signal, inside that handler.               *)
(*                                                                         *)
(* Spec is the watcher from the start of main(), signals arriving between  *)
(* dispatches; SpecLive adds progress of main(); SpecAsync adds SIGUSR1    *)
(* arriving inside handle_dbus_signal.  SpecE2E is a running watcher with  *)
(* the relay behind it; SpecRelay is the relay serving arbitrary clients.  *)
(* SpecNames runs handle_dbus_signal of either watcher file once on an     *)
(* arbitrary unit name.  SpecStart is either watcher file from its first   *)
(* statement through startup to the events it handles.                     *)
(***************************************************************************)
EXTENDS Integers, Sequences, FiniteSets, TLC

(***************************************************************************)
(* Bounds of the model.                                                    *)
(***************************************************************************)
MaxEvents == 2      \* bus signals dispatched to the watcher's handler
MaxLoads == 1       \* SIGUSR1 reloads after the initial load
MaxChan == 2        \* relay requests in flight on the bus
MaxReqs == 2        \* requests of other clients handled by the relay
MaxNameLen == 3     \* characters of a unit name, where names are arbitrary

(***************************************************************************)
(* String helpers (Python str methods used by the code).                   *)
(***************************************************************************)
NL == "\n"
Whitespace == {" ", "\t"}

StartsWith(s, p) ==
    /\ Len(p) <= Len(s)
    /\ SubSeq(s, 1, Len(p)) = p

RemovePrefix(s, p) ==
    IF StartsWith(s, p) THEN SubSeq(s, Len(p) + 1, Len(s)) ELSE s

RECURSIVE LStrip(_)
LStrip(s) ==
    IF s # <<>> /\ Head(s) \in Whitespace THEN LStrip(Tail(s)) ELSE s

RECURSIVE RStrip(_)
RStrip(s) ==
    IF s # <<>> /\ s[Len(s)] \in Whitespace
    THEN RStrip(SubSeq(s, 1, Len(s) - 1))
    ELSE s

Strip(s) == RStrip(LStrip(s))

\* str.split(sep) for a one-character separator: always at least one piece.
RECURSIVE SplitAcc(_, _, _)
SplitAcc(s, sep, cur) ==
    IF s = <<>> THEN <<cur>>
    ELSE IF Head(s) = sep THEN <<cur>> \o SplitAcc(Tail(s), sep, <<>>)
    ELSE SplitAcc(Tail(s), sep, Append(cur, Head(s)))

Split(s, sep) == SplitAcc(s, sep, <<>>)

\* sep.join(parts)
RECURSIVE Join(_, _)
Join(parts, sep) ==
    IF parts = <<>> THEN <<>>
    ELSE IF Len(parts) = 1 THEN parts[1]
    ELSE parts[1] \o <<sep>> \o Join(Tail(parts), sep)

\* str(n) for a natural number
RECURSIVE IntToStr(_)
IntToStr(n) ==
    LET d == <<"0", "1", "2", "3", "4", "5", "6", "7", "8", "9">>[(n % 10) + 1]
    IN IF n < 10 THEN <<d>> ELSE Append(IntToStr(n \div 10), d)

InSeq(x, s) == \E i \in 1..Len(s) : s[i] = x

(***************************************************************************)
(* Regular expressions.  The fragments of the model's files are literals,  *)
(* plus "(" which opens a group that is never closed: re.compile raises    *)
(* re.error on such a pattern.  A compiled pattern is kept as its source   *)
(* text; Pattern.match tries the "|" alternatives at the start of the      *)
(* subject.                                                                *)
(***************************************************************************)
None == <<>>
Some(x) == <<x>>

ReCompileFails(pattern) == InSeq("(", pattern)

ReMatch(pattern, subject) ==
    LET alts == Split(pattern, "|")
    IN \E i \in 1..Len(alts) : StartsWith(subject, alts[i])


(***************************************************************************)
(* Values carried on the bus.  A value has a Python/D-Bus type tag t, and  *)
(* its content in s (text) or n (number); the field that does not apply    *)
(* holds <<>> or 0.  t = "none" is what dict.get returns for a missing     *)
(* key.                                                                    *)
(***************************************************************************)
StrV(s) == [t |-> "String", s |-> s, n |-> 0]
PathV(s) == [t |-> "ObjectPath", s |-> s, n |-> 0]
IntV(n) == [t |-> "Int", s |-> <<>>, n |-> n]
BoolV(n) == [t |-> "Boolean", s |-> <<>>, n |-> n]
DblV(n) == [t |-> "Double", s |-> <<>>, n |-> n]
Missing == [t |-> "none", s |-> <<>>, n |-> 0]

(***************************************************************************)
(* The watcher: constants of systemd_svc_watcher.py                        *)
(***************************************************************************)
RegexPrefix == <<"R", "E", "G", "E", "X", "|">>

Pids == {7, 71}

\* unit names delivered in JobRemoved signals
Units == { <<"a">>, <<"1", "a">> }

ActiveStates == {"active", "inactive", "failed"}
SubStatesOf(state) == {state, "dead"}

\* contents of BLACK_LIST_FILE the model reads
Files ==
    { <<"a", NL>>,
      <<"#", "a", NL, "R", "E", "G", "E", "X", "|", "1">>,
      <<" ", NL, "1", "a", " ", NL, "R", "E", "G", "E", "X", "|", "a",
        NL, "R", "E", "G", "E", "X", "|", "b">>,
      <<"a", NL, "R", "E", "G", "E", "X", "|", "(">> }

\* what the file system does when load_config is run
FsOutcomes == {"absent", "PermissionError", "FileNotFoundError", "ReadError", "ok"}

\* signals as delivered to handle_dbus_signal(*args)
JobPath == <<"/", "j">>
JobRemoved(unit) == << IntV(1), PathV(JobPath), StrV(unit), StrV(<<"done">>) >>

BadSignals ==
    { <<>>,
      << IntV(1), PathV(JobPath), StrV(<<"a">>) >>,
      << IntV(1), StrV(JobPath), StrV(<<"a">>), StrV(<<"done">>) >>,
      << IntV(1), PathV(JobPath), IntV(2), StrV(<<"done">>) >> }

Signals == { JobRemoved(u) : u \in Units } \cup BadSignals

VARIABLES
    pid,                \* os.getpid() of the watcher
    stdin_tty,          \* sys.stdin.isatty()
    wpc,                \* position of the watcher's main()
    bus,                \* "none", "open" or "closed" (bus and system_bus)
    loop,               \* "none", "running" or "quit"
    black_list,         \* list[str]
    black_list_regex,   \* None or Some(pattern)
    notif_ids,          \* dict unit -> replace key
    chan,               \* Notify requests on the bus, not yet dispatched
    wlast,              \* what the last run of handle_dbus_signal did
    lload,              \* what the last run of load_config did
    lastFile,           \* None or Some(content of the last file read to the end)
    nEvents,            \* signals dispatched to the watcher so far
    nLoads,             \* SIGUSR1 reloads so far
    NOTIF_IDS,          \* the relay's dict replace key -> notification id
    rlast,              \* what the last run of the relay's handler did
    rprev,              \* key, resolved replace id, answer of the run before
    rpc,                \* the relay: "running" (in loop.run()) or "stopped"
    nextId,             \* next fresh id of the desktop notification service
    shown,              \* notifications on screen: [id, key of the request]
    nReqs               \* requests of other clients handled so far

wvars == <<pid, stdin_tty, wpc, bus, loop, black_list, black_list_regex,
           notif_ids, wlast, lload, lastFile, nEvents, nLoads>>
rvars == <<NOTIF_IDS, rlast, rprev, rpc, nextId, shown>>
vars == <<wvars, chan, rvars, nReqs>>

(***************************************************************************)
(* load_config                                                             *)
(***************************************************************************)
\* the loop over file.read().split('\n'): acc = [list |-> black_list, re |-> black_list_re]
RECURSIVE ParseLines(_, _)
ParseLines(lines, acc) ==
    IF lines = <<>> THEN acc
    ELSE LET line == Strip(Head(lines))
         IN IF StartsWith(line, <<"#">>)
            THEN ParseLines(Tail(lines), acc)
            ELSE IF StartsWith(line, RegexPrefix)
            THEN ParseLines(Tail(lines),
                    [acc EXCEPT !.re = Append(@, RemovePrefix(line, RegexPrefix))])
            ELSE ParseLines(Tail(lines), [acc EXCEPT !.list = Append(@, line)])

\* load_config() run on a file system that answers fs, the file holding content.
\* exc is the exception that escapes ("none" if none does).
LoadConfig(fs, content, bl, re) ==
    IF fs = "absent"
    THEN [list |-> bl, regex |-> re, exc |-> "none", printed |-> "nothing", read |-> FALSE]
    ELSE IF fs \in {"PermissionError", "FileNotFoundError"}
    THEN [list |-> bl, regex |-> re, exc |-> "none", printed |-> fs, read |-> FALSE]
    ELSE IF fs = "ReadError"
    THEN [list |-> <<>>, regex |-> re, exc |-> "ReadError", printed |-> "nothing",
          read |-> FALSE]
    ELSE LET parsed == ParseLines(Split(content, NL), [list |-> <<>>, re |-> <<>>])
             pattern == Join(parsed.re, "|")
         IN IF parsed.re # <<>> /\ ReCompileFails(pattern)
            THEN [list |-> parsed.list, regex |-> re, exc |-> "re.error",
                  printed |-> "nothing", read |-> TRUE]
            ELSE [list |-> parsed.list,
                  regex |-> IF parsed.re # <<>> THEN Some(pattern) ELSE re,
                  exc |-> "none", printed |-> "Loaded", read |-> TRUE]

NoLoad == [fs |-> "none", exc |-> "none", printed |-> "nothing"]


(***************************************************************************)
(* handle_dbus_signal of the watcher                                       *)
(***************************************************************************)
SVC_PATH_REPLACEMENTS ==
    << <<"_", <<"_", "5", "f">> >>,
       <<"-", <<"_", "2", "d">> >>,
       <<".", <<"_", "2", "e">> >>,
       <<"/", <<"_", "2", "f">> >>,
       <<":", <<"_", "3", "a">> >>,
       <<"@", <<"_", "4", "0">> >>,
       <<"\\", <<"_", "5", "c">> >> >>

\* str.replace(frm, to) for a one-character frm
RECURSIVE Replace(_, _, _)
Replace(s, frm, to) ==
    IF s = <<>> THEN <<>>
    ELSE (IF Head(s) = frm THEN to ELSE <<Head(s)>>) \o Replace(Tail(s), frm, to)

\* for frm, to in SVC_PATH_REPLACEMENTS.items(): unit = unit.replace(frm, to)
RECURSIVE EscapeFrom(_, _)
EscapeFrom(unit, i) ==
    IF i > Len(SVC_PATH_REPLACEMENTS) THEN unit
    ELSE EscapeFrom(Replace(unit, SVC_PATH_REPLACEMENTS[i][1],
                            SVC_PATH_REPLACEMENTS[i][2]), i + 1)

UnitPath(unit) == <<"/org/freedesktop/systemd1", "/unit/">> \o EscapeFrom(unit, 1)

\* variant of Msg that always appends the sub-state
Msg_AlwaysSubState(unit, state, sub_state) ==
    unit \o <<" becomes ", state>> \o <<" (", sub_state, ")">>

\* variant of Msg that keeps the state read for the event before, if any
Msg_EarlierState(unit, state, sub_state) ==
    unit \o <<" becomes ", IF wlast.state # "" THEN wlast.state ELSE state>>
         \o (IF state # sub_state THEN <<" (", sub_state, ")">> ELSE <<>>)

\* msg = f'{unit} becomes {state}' [+ f' ({sub_state})']
Msg(unit, state, sub_state) ==
    unit \o <<" becomes ", state>>
         \o (IF state # sub_state THEN <<" (", sub_state, ")">> ELSE <<>>)

\* variant of IsIgnored that lets "active" through
IsIgnored_ActiveNotified(unit, state, bl, re) ==
    /\ state = "inactive"
    /\ \/ InSeq(unit, bl)
       \/ re # None /\ ReMatch(re[1], unit)

\* variant of IsIgnored that does not consult the regex
IsIgnored_ExactOnly(unit, state, bl, re) ==
    \/ state = "active"
    \/ state = "inactive" /\ InSeq(unit, bl)

\* variant of IsIgnored that applies the blocklist to every state
IsIgnored_AnyState(unit, state, bl, re) ==
    \/ state = "active"
    \/ InSeq(unit, bl)
    \/ re # None /\ ReMatch(re[1], unit)

\* the condition of the 'Ignoring:' branch
IsIgnored(unit, state, bl, re) ==
    \/ state = "active"
    \/ /\ state = "inactive"
       /\ \/ InSeq(unit, bl)
          \/ re # None /\ ReMatch(re[1], unit)

\* variant of NewKey without the separator
NewKey_NoSeparator(p, unit) == IntToStr(p) \o unit

\* nid = str(os.getpid()) + '|' + unit
NewKey(p, unit) == IntToStr(p) \o <<"|">> \o unit

\* notif_ids.get(unit), None if absent
DictGet(d, k) == IF k \in DOMAIN d THEN Some(d[k]) ELSE None

\* variant of DictPut that forgets the other entries
DictPut_Forgetful(d, k, v) == [x \in {k} |-> v]

\* d[k] = v
DictPut(d, k, v) == [x \in (DOMAIN d) \cup {k} |-> IF x = k THEN v ELSE d[x]]

EmptyDict == [x \in {} |-> 0]

\* variant of ProxyRequest that passes the key in replace_id
ProxyRequest_KeyAsReplaceId(nid, msg) ==
    [app_name |-> Missing,
     replace_id |-> StrV(nid),
     replace_old |-> Missing,
     app_icon |-> StrV(<<"text-x-systemd-unit">>),
     summary |-> StrV(<<"Service state changed">>),
     body |-> StrV(msg),
     timeout |-> IntV(0)]

\* the request notify_proxy puts on the bus for
\* (replace_old=nid, app_icon=..., summary=..., body=msg, timeout=0)
ProxyRequest(nid, msg) ==
    [app_name |-> Missing,
     replace_id |-> Missing,
     replace_old |-> StrV(nid),
     app_icon |-> StrV(<<"text-x-systemd-unit">>),
     summary |-> StrV(<<"Service state changed">>),
     body |-> StrV(msg),
     timeout |-> IntV(0)]

DictSignal(req) == [nargs |-> 1, isdict |-> TRUE, req |-> req]

ReadFailed == "DBusException"
ReadOutcomes == ActiveStates \cup {ReadFailed}

\* file: the source file whose handle_dbus_signal the record is about
NoEvent == [kind |-> "none", args |-> <<>>, unit |-> <<>>, path |-> <<>>, state |-> "",
            sub_state |-> "", reads |-> 0, msg |-> <<>>,
            file |-> "systemd_svc_watcher.py"]

\* variant of BadSignal that checks the number of fields only
BadSignal_LenOnly(args) == Len(args) # 4

\* the shape check: len(args) != 4 or not isinstance(args[1], dbus.ObjectPath)
\* or not isinstance(args[2], dbus.String)
BadSignal(args) ==
    \/ Len(args) # 4
    \/ args[2].t # "ObjectPath"
    \/ args[3].t # "String"

\* variant of ReadFailure that goes on to notify with what has been read
ReadFailure_NotifyAnyway(base, reads, state, p, ids) ==
    [ev |-> [base EXCEPT !.kind = "exception", !.reads = reads, !.state = state],
     ids |-> DictPut(ids, base.unit, NewKey(p, base.unit)),
     sent |-> <<DictSignal(ProxyRequest(NewKey(p, base.unit), base.unit))>>]

\* bus.call_blocking(... 'Get' ...) raises in the read number reads: the
\* exception leaves handle_dbus_signal at that statement
ReadFailure(base, reads, state, p, ids) ==
    [ev |-> [base EXCEPT !.kind = "exception", !.reads = reads, !.state = state],
     ids |-> ids,
     sent |-> <<>>]

\* what one run of handle_dbus_signal(*args) does, the two property reads
\* answering r1 and r2: the record of the run, the new notif_ids, the request sent
HandleSignal(args, r1, r2, p, bl, re, ids) ==
    IF args = <<>>
    THEN [ev |-> [NoEvent EXCEPT !.kind = "empty_signal"], ids |-> ids, sent |-> <<>>]
    ELSE IF BadSignal(args)
    THEN [ev |-> [NoEvent EXCEPT !.kind = "bad_signal", !.args = args],
          ids |-> ids, sent |-> <<>>]
    ELSE LET unit == args[3].s
             path == UnitPath(unit)
             base == [NoEvent EXCEPT !.args = args, !.unit = unit, !.path = path]
         IN IF r1 = ReadFailed
            THEN ReadFailure(base, 1, "", p, ids)
            ELSE IF r2 = ReadFailed
            THEN ReadFailure(base, 2, r1, p, ids)
            ELSE LET msg == Msg(unit, r1, r2)
                     done == [base EXCEPT !.reads = 2, !.state = r1,
                                          !.sub_state = r2, !.msg = msg]
                     got == DictGet(ids, unit)
                     nid == IF got = None \/ got[1] = <<>> THEN NewKey(p, unit) ELSE got[1]
                 IN IF IsIgnored(unit, r1, bl, re)
                    THEN [ev |-> [done EXCEPT !.kind = "ignored"],
                          ids |-> ids, sent |-> <<>>]
                    ELSE [ev |-> [done EXCEPT !.kind = "notified"],
                          ids |-> IF got = None \/ got[1] = <<>>
                                  THEN DictPut(ids, unit, nid) ELSE ids,
                          sent |-> <<DictSignal(ProxyRequest(nid, msg))>>]

\* variant of Dispatching that hands signals over as soon as the bus is open
Dispatching_OnceConnected == bus = "open"

\* signals reach handle_dbus_signal only from the running loop
Dispatching == wpc = "running" /\ bus = "open"

HandleDbusSignal ==
    /\ Dispatching
    /\ nEvents < MaxEvents
    /\ \E args \in Signals, r1 \in ReadOutcomes :
         \E r2 \in (IF r1 = ReadFailed THEN {ReadFailed}
                    ELSE SubStatesOf(r1) \cup {ReadFailed}) :
           \E h \in {HandleSignal(args, r1, r2, pid, black_list, black_list_regex,
                                  notif_ids)} :
              /\ Len(chan) + Len(h.sent) <= MaxChan
              /\ wlast' = h.ev
              /\ notif_ids' = h.ids
              /\ chan' = chan \o h.sent
    /\ nEvents' = nEvents + 1
    /\ UNCHANGED <<pid, stdin_tty, wpc, bus, loop, black_list, black_list_regex,
                   lload, lastFile, nLoads, rvars, nReqs>>


(***************************************************************************)
(* handle_dbus_signal of the earlier watcher (sys_svc_watcher.py)          *)
(***************************************************************************)
SVC_PATH_REPLACEMENTS_sys_svc_watcher ==
    << <<"-", <<"_", "2", "d">> >>,
       <<".", <<"_", "2", "e">> >>,
       <<"/", <<"_", "2", "f">> >>,
       <<":", <<"_", "3", "a">> >>,
       <<"@", <<"_", "4", "0">> >>,
       <<"\\", <<"_", "5", "c">> >> >>

\* for frm, to in SVC_PATH_REPLACEMENTS.items(): unit = unit.replace(frm, to)
RECURSIVE LegacyEscapeFrom(_, _)
LegacyEscapeFrom(unit, i) ==
    IF i > Len(SVC_PATH_REPLACEMENTS_sys_svc_watcher) THEN unit
    ELSE LegacyEscapeFrom(Replace(unit, SVC_PATH_REPLACEMENTS_sys_svc_watcher[i][1],
                                  SVC_PATH_REPLACEMENTS_sys_svc_watcher[i][2]), i + 1)

LegacyUnitPath(unit) ==
    <<"/org/freedesktop/systemd1", "/unit/">> \o LegacyEscapeFrom(unit, 1)

\* msg = f'{unit} becomes {state}'
LegacyMsg(unit, state) == unit \o <<" becomes ", state>>

LegacyNoEvent == [NoEvent EXCEPT !.file = "sys_svc_watcher.py"]

\* what one run of handle_dbus_signal(*args) of sys_svc_watcher.py does, its
\* one property read answering r1.  sub is the SubState the unit has at that
\* moment: this handler does not read it, the record keeps it.
LegacyHandleSignal(args, r1, sub, p, bl, re, ids) ==
    IF args = <<>>
    THEN [ev |-> [LegacyNoEvent EXCEPT !.kind = "empty_signal"], ids |-> ids,
          sent |-> <<>>]
    ELSE IF BadSignal(args)
    THEN [ev |-> [LegacyNoEvent EXCEPT !.kind = "bad_signal", !.args = args],
          ids |-> ids, sent |-> <<>>]
    ELSE LET unit == args[3].s
             path == LegacyUnitPath(unit)
             base == [LegacyNoEvent EXCEPT !.args = args, !.unit = unit, !.path = path]
         IN IF r1 = ReadFailed
            THEN [ev |-> [base EXCEPT !.kind = "exception", !.reads = 1],
                  ids |-> ids, sent |-> <<>>]
            ELSE LET msg == LegacyMsg(unit, r1)
                     done == [base EXCEPT !.reads = 1, !.state = r1,
                                          !.sub_state = sub, !.msg = msg]
                     got == DictGet(ids, unit)
                     nid == IF got = None \/ got[1] = <<>> THEN NewKey(p, unit) ELSE got[1]
                 IN IF IsIgnored(unit, r1, bl, re)
                    THEN [ev |-> [done EXCEPT !.kind = "ignored"],
                          ids |-> ids, sent |-> <<>>]
                    ELSE [ev |-> [done EXCEPT !.kind = "notified"],
                          ids |-> IF got = None \/ got[1] = <<>>
                                  THEN DictPut(ids, unit, nid) ELSE ids,
                          sent |-> <<DictSignal(ProxyRequest(nid, msg))>>]

(***************************************************************************)
(* Unit names: each handler run once on a JobRemoved signal of an          *)
(* arbitrary name                                                          *)
(***************************************************************************)
NameChars == {"_", "-", ".", "2", "d"}

\* every name of 1 .. MaxNameLen characters
NameUnits == UNION { [1..n -> NameChars] : n \in 1..MaxNameLen }

\* the bus dispatches a JobRemoved signal of some name to handle_dbus_signal
\* of systemd_svc_watcher.py
NamedSignal ==
    /\ Dispatching
    /\ wlast = NoEvent
    /\ \E unit \in NameUnits, r1 \in ReadOutcomes :
         \E r2 \in (IF r1 = ReadFailed THEN {ReadFailed}
                    ELSE SubStatesOf(r1) \cup {ReadFailed}) :
           \E h \in {HandleSignal(JobRemoved(unit), r1, r2, pid, black_list,
                                  black_list_regex, notif_ids)} :
              /\ Len(chan) + Len(h.sent) <= MaxChan
              /\ wlast' = h.ev
              /\ notif_ids' = h.ids
              /\ chan' = chan \o h.sent
    /\ nEvents' = nEvents + 1
    /\ UNCHANGED <<pid, stdin_tty, wpc, bus, loop, black_list, black_list_regex,
                   lload, lastFile, nLoads, rvars, nReqs>>

\* the same for handle_dbus_signal of sys_svc_watcher.py
LegacyNamedSignal ==
    /\ Dispatching
    /\ wlast = LegacyNoEvent
    /\ \E unit \in NameUnits, r1 \in ReadOutcomes :
         \E sub \in (IF r1 = ReadFailed THEN {""} ELSE SubStatesOf(r1)) :
           \E h \in {LegacyHandleSignal(JobRemoved(unit), r1, sub, pid, black_list,
                                        black_list_regex, notif_ids)} :
              /\ Len(chan) + Len(h.sent) <= MaxChan
              /\ wlast' = h.ev
              /\ notif_ids' = h.ids
              /\ chan' = chan \o h.sent
    /\ nEvents' = nEvents + 1
    /\ UNCHANGED <<pid, stdin_tty, wpc, bus, loop, black_list, black_list_regex,
                   lload, lastFile, nLoads, rvars, nReqs>>


(***************************************************************************)
(* kill_me, handle_uncaught_exc, the SIGUSR1 handler and main()            *)
(***************************************************************************)
\* variant of KillMeEffect that leaves the loop running
KillMeEffect_NoQuit ==
    /\ bus' = IF bus = "none" THEN "none" ELSE "closed"
    /\ loop' = loop

\* kill_me(): close the connections, quit the loop if there is one
KillMeEffect ==
    /\ bus' = IF bus = "none" THEN "none" ELSE "closed"
    /\ loop' = IF loop = "running" THEN "quit" ELSE loop

HandlersSet == wpc \in {"handlers", "subscribed", "registered", "running"}

\* SIGHUP, SIGINT, SIGQUIT or SIGTERM is delivered: kill_me(sig)
KillMe ==
    /\ HandlersSet
    /\ KillMeEffect
    /\ wpc' = IF loop = "running" THEN "stopped" ELSE wpc
    /\ UNCHANGED <<pid, stdin_tty, black_list, black_list_regex, notif_ids, wlast,
                   lload, lastFile, nEvents, nLoads, chan, rvars, nReqs>>

\* the file system answers and file contents load_config is run on
LoadInputs == { <<fs, content>> \in FsOutcomes \X Files :
                   fs # "ok" => content = CHOOSE f \in Files : TRUE }

\* load_config() run from frame "main" (before sys.excepthook is set),
\* "signal" (the SIGUSR1 handler, the process being in main() or idle in the
\* loop) or "dbus" (the SIGUSR1 handler run while handle_dbus_signal is
\* executing).  An exception that escapes it ends the process in main; from
\* the signal handler it reaches handle_uncaught_exc, which runs kill_me();
\* inside handle_dbus_signal it leaves that handler and is logged by the bus
\* binding.
RunLoadConfig(frame) ==
    \E in \in LoadInputs :
      \E r \in {LoadConfig(in[1], in[2], black_list, black_list_regex)} :
        /\ black_list' = r.list
        /\ black_list_regex' = r.regex
        /\ lload' = [fs |-> in[1], exc |-> r.exc, printed |-> r.printed]
        /\ lastFile' = IF r.read THEN Some(in[2]) ELSE lastFile
        /\ IF r.exc = "none"
           THEN /\ wpc' = IF frame = "main" THEN "loaded" ELSE wpc
                /\ UNCHANGED <<bus, loop>>
           ELSE IF frame = "main"
           THEN wpc' = "dead" /\ UNCHANGED <<bus, loop>>
           ELSE IF frame = "dbus"
           THEN UNCHANGED <<wpc, bus, loop>>
           ELSE /\ KillMeEffect
                /\ wpc' = IF loop = "running" THEN "stopped" ELSE "dead"

\* main(): bus = dbus.SystemBus() / dbus.SessionBus()
Main_Connect ==
    /\ wpc = "start"
    /\ bus' = "open"
    /\ wpc' = "connected"
    /\ UNCHANGED <<pid, stdin_tty, loop, black_list, black_list_regex, notif_ids,
                   wlast, lload, lastFile, nEvents, nLoads, chan, rvars, nReqs>>

\* main(): load_config()
Main_LoadConfig ==
    /\ wpc = "connected"
    /\ RunLoadConfig("main")
    /\ UNCHANGED <<pid, stdin_tty, notif_ids, wlast, nEvents, nLoads, chan, rvars,
                   nReqs>>

\* main(): sys.excepthook = handle_uncaught_exc; set_signal_handlers()
Main_SetSignalHandlers ==
    /\ wpc = "loaded"
    /\ wpc' = "handlers"
    /\ UNCHANGED <<pid, stdin_tty, bus, loop, black_list, black_list_regex, notif_ids,
                   wlast, lload, lastFile, nEvents, nLoads, chan, rvars, nReqs>>

\* main(): the Subscribe call; on a closed connection it raises, the
\* exception reaches handle_uncaught_exc and the process ends
Main_Subscribe ==
    /\ wpc = "handlers"
    /\ IF bus = "open"
       THEN wpc' = "subscribed" /\ UNCHANGED <<bus, loop>>
       ELSE wpc' = "dead" /\ KillMeEffect
    /\ UNCHANGED <<pid, stdin_tty, black_list, black_list_regex, notif_ids, wlast,
                   lload, lastFile, nEvents, nLoads, chan, rvars, nReqs>>

\* main(): bus.add_signal_receiver(handle_dbus_signal, ...)
Main_AddSignalReceiver ==
    /\ wpc = "subscribed"
    /\ IF bus = "open"
       THEN wpc' = "registered" /\ UNCHANGED <<bus, loop>>
       ELSE wpc' = "dead" /\ KillMeEffect
    /\ UNCHANGED <<pid, stdin_tty, black_list, black_list_regex, notif_ids, wlast,
                   lload, lastFile, nEvents, nLoads, chan, rvars, nReqs>>

\* main(): loop = GLib.MainLoop(); loop.run()
Main_RunLoop ==
    /\ wpc = "registered"
    /\ loop' = "running"
    /\ wpc' = "running"
    /\ UNCHANGED <<pid, stdin_tty, bus, black_list, black_list_regex, notif_ids,
                   wlast, lload, lastFile, nEvents, nLoads, chan, rvars, nReqs>>

\* SIGUSR1 is delivered: lambda *_: load_config(), registered only when
\* stdin is not a terminal
SigUsr1 ==
    /\ HandlersSet
    /\ ~stdin_tty
    /\ nLoads < MaxLoads
    /\ RunLoadConfig("signal")
    /\ nLoads' = nLoads + 1
    /\ UNCHANGED <<pid, stdin_tty, notif_ids, wlast, nEvents, chan, rvars, nReqs>>

\* SIGUSR1 is delivered while handle_dbus_signal waits for its SubState
\* read: the Python handler runs in the main thread when the read returns,
\* inside handle_dbus_signal and before the suppression check.  If
\* load_config raises, the exception leaves handle_dbus_signal there.
SigUsr1InHandler ==
    /\ Dispatching
    /\ ~stdin_tty
    /\ nEvents < MaxEvents
    /\ nLoads < MaxLoads
    /\ RunLoadConfig("dbus")
    /\ \E unit \in Units, r1 \in ActiveStates :
         \E r2 \in SubStatesOf(r1) :
           IF lload'.exc # "none"
           THEN /\ wlast' = [NoEvent EXCEPT !.kind = "interrupted",
                                            !.args = JobRemoved(unit),
                                            !.unit = unit, !.path = UnitPath(unit),
                                            !.reads = 2, !.state = r1,
                                            !.sub_state = r2]
                /\ UNCHANGED <<notif_ids, chan>>
           ELSE \E h \in {HandleSignal(JobRemoved(unit), r1, r2, pid, black_list',
                                       black_list_regex', notif_ids)} :
                  /\ Len(chan) + Len(h.sent) <= MaxChan
                  /\ wlast' = h.ev
                  /\ notif_ids' = h.ids
                  /\ chan' = chan \o h.sent
    /\ nEvents' = nEvents + 1
    /\ nLoads' = nLoads + 1
    /\ UNCHANGED <<pid, stdin_tty, rvars, nReqs>>

(***************************************************************************)
(* The relay (sys_desk_notif_d.py)                                         *)
(***************************************************************************)
\* Python truth value of a bus value
Truthy(v) ==
    CASE v.t = "none" -> FALSE
      [] v.t \in {"String", "ObjectPath"} -> v.s # <<>>
      [] OTHER -> v.n # 0

\* isinstance(v, str): dbus.String and dbus.ObjectPath derive from str
IsStr(v) == v.t \in {"String", "ObjectPath"}

\* isinstance(v, int): the dbus integer types and dbus.Boolean derive from int
IsInt(v) == v.t \in {"Int", "Boolean"}

get_notif_str(d, key) ==
    IF Truthy(d[key]) /\ IsStr(d[key]) THEN d[key].s ELSE <<>>

\* variant of get_notif_int without the sign check
get_notif_int_NoSign(d, key, default, multiplier) ==
    IF d[key].t # "none" /\ IsInt(d[key])
    THEN d[key].n * multiplier
    ELSE default

\* variant of get_notif_int without the isinstance check
get_notif_int_NoTypeCheck(d, key, default, multiplier) ==
    IF d[key].t # "none" /\ d[key].n >= 0
    THEN d[key].n * multiplier
    ELSE default

\* variant of get_notif_int that leaves the multiplier out
get_notif_int_NoMultiplier(d, key, default, multiplier) ==
    IF d[key].t # "none" /\ IsInt(d[key]) /\ d[key].n >= 0
    THEN d[key].n
    ELSE default

get_notif_int(d, key, default, multiplier) ==
    IF d[key].t # "none" /\ IsInt(d[key]) /\ d[key].n >= 0
    THEN d[key].n * multiplier
    ELSE default

\* timeout = get_notif_int(req, TIMEOUT, -1, 1000)
TimeoutMultiplier == 1000
DefaultTimeout == -1

\* the arguments of the Notify call built from request req, before the
\* replace id is looked up
NotifyArgs(req) ==
    [app_name |-> get_notif_str(req, "app_name"),
     replace_id |-> get_notif_int(req, "replace_id", 0, 1),
     app_icon |-> get_notif_str(req, "app_icon"),
     summary |-> get_notif_str(req, "summary"),
     body |-> get_notif_str(req, "body"),
     timeout |-> get_notif_int(req, "timeout", DefaultTimeout, TimeoutMultiplier)]

\* variant of ReplaceId that never looks the key up
ReplaceId_NoLookup(replace_id, replace_old, ids) == replace_id

\* variant of ReplaceId that prefers the remembered id to the request's own
ReplaceId_AlwaysLookup(replace_id, replace_old, ids) ==
    IF replace_old # <<>> /\ replace_old \in DOMAIN ids /\ ids[replace_old] # 0
    THEN ids[replace_old]
    ELSE replace_id

\* if not replace_id and replace_old: if nid := NOTIF_IDS.get(replace_old): ...
ReplaceId(replace_id, replace_old, ids) ==
    IF replace_id = 0 /\ replace_old # <<>> /\ replace_old \in DOMAIN ids
       /\ ids[replace_old] # 0
    THEN ids[replace_old]
    ELSE replace_id

\* variant of StoreId that keeps the first id stored for a key
StoreId_KeepFirst(ids, replace_old, nid) ==
    IF replace_old # <<>> /\ nid # 0 /\ replace_old \notin DOMAIN ids
    THEN DictPut(ids, replace_old, nid) ELSE ids

\* if replace_old and nid: NOTIF_IDS[replace_old] = nid
StoreId(ids, replace_old, nid) ==
    IF replace_old # <<>> /\ nid # 0 THEN DictPut(ids, replace_old, nid) ELSE ids

EmptyRequest ==
    [app_name |-> Missing, replace_id |-> Missing, replace_old |-> Missing,
     app_icon |-> Missing, summary |-> Missing, body |-> Missing, timeout |-> Missing]

NoArgs == [app_name |-> <<>>, replace_id |-> 0, app_icon |-> <<>>, summary |-> <<>>,
           body |-> <<>>, timeout |-> 0]

NoCall == [kind |-> "none", req |-> EmptyRequest, key |-> <<>>, fwd |-> NoArgs,
           out |-> "none", nid |-> 0, calls |-> 0]

\* what rprev keeps of a run
Brief(call) ==
    [kind |-> call.kind, key |-> call.key,
     rid |-> get_notif_int(call.req, "replace_id", 0, 1),
     out |-> call.out, nid |-> call.nid]

\* the ids the notification service may answer to Notify(replace_id): a fresh
\* one, or the replaced one
NotifyAnswers(replace_id) ==
    {nextId} \cup (IF replace_id # 0 THEN {replace_id} ELSE {})

\* the Notify call the relay makes for request req: key is replace_old,
\* fwd the arguments passed to call_blocking
RelayCall(req, ids) ==
    LET replace_old == get_notif_str(req, "replace_old")
        args == NotifyArgs(req)
    IN [NoCall EXCEPT !.kind = "called", !.req = req, !.key = replace_old,
                      !.fwd = [args EXCEPT !.replace_id =
                                 ReplaceId(args.replace_id, replace_old, ids)],
                      !.calls = 1]

\* handle_dbus_signal(*args) of the relay on signal sig
RelayHandle(sig) ==
    /\ rpc = "running"
    /\ rprev' = Brief(rlast)
    /\ UNCHANGED rpc
    /\ IF sig.nargs = 0
         THEN /\ rlast' = [NoCall EXCEPT !.kind = "empty"]
              /\ UNCHANGED <<NOTIF_IDS, nextId, shown>>
         ELSE IF sig.nargs # 1 \/ ~sig.isdict
         THEN /\ rlast' = [NoCall EXCEPT !.kind = "bad_request"]
              /\ UNCHANGED <<NOTIF_IDS, nextId, shown>>
         ELSE \E call \in {RelayCall(sig.req, NOTIF_IDS)} :
                \/ \* the Notify call raises: the exception leaves the handler
                   /\ rlast' = [call EXCEPT !.out = "DBusException"]
                   /\ UNCHANGED <<NOTIF_IDS, nextId, shown>>
                \/ \E nid \in NotifyAnswers(call.fwd.replace_id) :
                     /\ rlast' = [call EXCEPT !.out = "ok", !.nid = nid]
                     /\ NOTIF_IDS' = StoreId(NOTIF_IDS, call.key, nid)
                     /\ nextId' = IF nid = nextId THEN nextId + 1 ELSE nextId
                     /\ shown' = { n \in shown : n.id # call.fwd.replace_id }
                                    \cup {[id |-> nid, key |-> call.key]}

\* SIGHUP, SIGINT, SIGQUIT or SIGTERM is delivered to the relay: kill_me(sig)
\* closes both connections and quits the loop
RelayKillMe ==
    /\ rpc = "running"
    /\ rpc' = "stopped"
    /\ UNCHANGED <<wvars, chan, NOTIF_IDS, rlast, rprev, nextId, shown, nReqs>>

\* the bus dispatches the next request sent by the watcher
RelayDispatch ==
    /\ chan # <<>>
    /\ RelayHandle(Head(chan))
    /\ chan' = Tail(chan)
    /\ UNCHANGED <<wvars, nReqs>>


(***************************************************************************)
(* Requests of other clients of the relay                                  *)
(***************************************************************************)
K1 == <<"k">>
K2 == <<"7", "|", "a">>

TextFields == {"app_name", "app_icon", "summary", "body"}
TextVals == {Missing, IntV(5), StrV(<<>>), StrV(<<"x">>)}
RidVals == {Missing, StrV(<<"1">>), IntV(-1), IntV(0), IntV(1), IntV(2), BoolV(1),
            DblV(1)}
RoldVals == {Missing, IntV(3), StrV(<<>>), StrV(K1), StrV(K2)}
TmoVals == {Missing, StrV(<<"5">>), IntV(-1), IntV(0), IntV(2), DblV(2)}

GoodRequest ==
    [app_name |-> StrV(<<"app">>), replace_id |-> IntV(0), replace_old |-> StrV(K1),
     app_icon |-> StrV(<<"icon">>), summary |-> StrV(<<"sum">>),
     body |-> StrV(<<"body">>), timeout |-> IntV(2)]

ClientRequests ==
    \* one text field varied
    { [GoodRequest EXCEPT ![f] = v] : f \in TextFields, v \in TextVals }
    \* replace_id and replace_old varied together
    \cup { [GoodRequest EXCEPT !.replace_id = i, !.replace_old = k] :
             i \in RidVals, k \in RoldVals }
    \* timeout varied, with and without a good replace_id
    \cup { [GoodRequest EXCEPT !.timeout = t, !.replace_id = i] :
             t \in TmoVals, i \in {Missing, IntV(-1), IntV(0)} }
    \* every field malformed
    \cup { [f \in DOMAIN GoodRequest |-> Missing],
           [f \in DOMAIN GoodRequest |->
              IF f \in {"replace_id", "timeout"} THEN StrV(<<"x">>) ELSE IntV(5)],
           [f \in DOMAIN GoodRequest |->
              IF f \in {"replace_id", "timeout"} THEN IntV(-1) ELSE StrV(<<>>)] }

ClientSignals ==
    { DictSignal(r) : r \in ClientRequests }
    \cup { [nargs |-> 0, isdict |-> FALSE, req |-> EmptyRequest],
           [nargs |-> 1, isdict |-> FALSE, req |-> EmptyRequest],
           [nargs |-> 2, isdict |-> TRUE, req |-> GoodRequest] }

\* a client emits a Notify signal and the bus dispatches it to the relay
ClientRequest ==
    /\ nReqs < MaxReqs
    /\ \E sig \in ClientSignals : RelayHandle(sig)
    /\ nReqs' = nReqs + 1
    /\ UNCHANGED <<wvars, chan>>

(***************************************************************************)
(* Specifications                                                          *)
(***************************************************************************)
Init ==
    /\ pid \in Pids
    /\ stdin_tty \in BOOLEAN
    /\ wpc = "start"
    /\ bus = "none"
    /\ loop = "none"
    /\ black_list = <<>>
    /\ black_list_regex = None
    /\ notif_ids = EmptyDict
    /\ chan = <<>>
    /\ wlast = NoEvent
    /\ lload = NoLoad
    /\ lastFile = None
    /\ nEvents = 0
    /\ nLoads = 0
    /\ NOTIF_IDS = EmptyDict
    /\ rlast = NoCall
    /\ rprev = Brief(NoCall)
    /\ rpc = "running"
    /\ nextId = 1
    /\ shown = {}
    /\ nReqs = 0

\* the watcher, from the start of main()
Next ==
    \/ Main_Connect
    \/ Main_LoadConfig
    \/ Main_SetSignalHandlers
    \/ Main_Subscribe
    \/ Main_AddSignalReceiver
    \/ Main_RunLoop
    \/ KillMe
    \/ SigUsr1
    \/ HandleDbusSignal

Spec == Init /\ [][Next]_vars

\* the statements of main(), which run one after the other without waiting
\* for anything outside the process
MainStep ==
    \/ Main_Connect
    \/ Main_LoadConfig
    \/ Main_SetSignalHandlers
    \/ Main_Subscribe
    \/ Main_AddSignalReceiver
    \/ Main_RunLoop

\* the watcher with main() making progress; signals and bus events arrive
\* or not as the environment decides
SpecLive == Init /\ [][Next]_vars /\ WF_vars(MainStep)

\* the watcher with SIGUSR1 also delivered while handle_dbus_signal runs
NextAsync ==
    \/ Next
    \/ SigUsr1InHandler

SpecAsync == Init /\ [][NextAsync]_vars

\* one watcher and one relay, both in their main loops, the relay serving
\* the watcher only; the watcher found no ignore list when it started
InitE2E ==
    /\ pid \in Pids
    /\ stdin_tty \in BOOLEAN
    /\ wpc = "running"
    /\ bus = "open"
    /\ loop = "running"
    /\ black_list = <<>>
    /\ black_list_regex = None
    /\ notif_ids = EmptyDict
    /\ chan = <<>>
    /\ wlast = NoEvent
    /\ lload = [NoLoad EXCEPT !.fs = "absent"]
    /\ lastFile = None
    /\ nEvents = 0
    /\ nLoads = 0
    /\ NOTIF_IDS = EmptyDict
    /\ rlast = NoCall
    /\ rprev = Brief(NoCall)
    /\ rpc = "running"
    /\ nextId = 1
    /\ shown = {}
    /\ nReqs = 0

NextE2E ==
    \/ HandleDbusSignal
    \/ RelayDispatch
    \/ RelayKillMe

SpecE2E == InitE2E /\ [][NextE2E]_vars

\* either watcher in its main loop, no ignore list found, receiving its
\* first JobRemoved signal, of an arbitrary unit name
InitNames ==
    /\ pid \in Pids
    /\ stdin_tty \in BOOLEAN
    /\ wpc = "running"
    /\ bus = "open"
    /\ loop = "running"
    /\ black_list = <<>>
    /\ black_list_regex = None
    /\ notif_ids = EmptyDict
    /\ chan = <<>>
    /\ wlast \in {NoEvent, LegacyNoEvent}
    /\ lload = [NoLoad EXCEPT !.fs = "absent"]
    /\ lastFile = None
    /\ nEvents = 0
    /\ nLoads = 0
    /\ NOTIF_IDS = EmptyDict
    /\ rlast = NoCall
    /\ rprev = Brief(NoCall)
    /\ rpc = "running"
    /\ nextId = 1
    /\ shown = {}
    /\ nReqs = 0

NextNames ==
    \/ NamedSignal
    \/ LegacyNamedSignal

SpecNames == InitNames /\ [][NextNames]_vars

\* the relay serving arbitrary clients
NextRelay ==
    \/ ClientRequest
    \/ RelayKillMe

SpecRelay == Init /\ [][NextRelay]_vars


(***************************************************************************)
(* Properties                                                              *)
(***************************************************************************)
\* this step is one run of the watcher's handle_dbus_signal
WatcherRan == nEvents' = nEvents + 1

\* the run recorded in ev passed the shape check and both property reads
Resolved(ev) == ev.kind \in {"ignored", "notified"}

\* unit is in the exact list or matched from its start by the regex
Blocklisted(unit, bl, re) ==
    \/ InSeq(unit, bl)
    \/ re # None /\ ReMatch(re[1], unit)

\* C1, as claimed: a well-formed event whose ActiveState is "active" is
\* never suppressed; a notification is sent whatever the blocklist holds.
C1_ActiveNeverSuppressed ==
    [][(WatcherRan /\ Resolved(wlast') /\ wlast'.state = "active")
         => (wlast'.kind = "notified" /\ Len(chan') = Len(chan) + 1)]_vars

\* C1, amended: a well-formed event whose ActiveState is "active" is always
\* suppressed: it is logged as ignored, no notification is sent and the
\* unit map is unchanged, whatever the exact list and the regex hold.
C1_ActiveAlwaysIgnored ==
    [][(WatcherRan /\ Resolved(wlast') /\ wlast'.state = "active")
         => (wlast'.kind = "ignored" /\ chan' = chan /\ notif_ids' = notif_ids)]_vars

\* an active event of a unit that is on neither list has been ignored
C1_Witness ==
    /\ wlast.kind = "ignored"
    /\ wlast.state = "active"
    /\ lload.printed = "Loaded"
    /\ ~Blocklisted(wlast.unit, black_list, black_list_regex)

\* C2: a well-formed event whose ActiveState is "inactive" and whose unit is
\* in the exact list or matched from its start by the regex is suppressed:
\* logged as ignored, nothing sent to the relay, unit map unchanged.
C2_InactiveBlocklistedIgnored ==
    [][(/\ WatcherRan
        /\ Resolved(wlast')
        /\ wlast'.state = "inactive"
        /\ Blocklisted(wlast'.unit, black_list, black_list_regex))
         => (wlast'.kind = "ignored" /\ chan' = chan /\ notif_ids' = notif_ids)]_vars

\* an inactive event was ignored because the regex matches a proper prefix
\* of the unit name, the name not being in the exact list
C2_Witness ==
    /\ wlast.kind = "ignored"
    /\ wlast.state = "inactive"
    /\ ~InSeq(wlast.unit, black_list)
    /\ black_list_regex # None
    /\ ReMatch(black_list_regex[1], wlast.unit)
    /\ ~InSeq(wlast.unit, Split(black_list_regex[1], "|"))

\* what a file alone produces: load_config run on it with nothing loaded before
Generation(content) ==
    LET r == LoadConfig("ok", content, <<>>, None)
    IN [list |-> r.list, regex |-> r.regex]

\* C3: after any sequence of load_config runs that returned, the exact list
\* and the regex are both exactly what the most recently read file alone
\* produces (no regex of an earlier generation stays in force).
C3_OneGeneration ==
    (lastFile # None /\ lload.exc = "none")
      => [list |-> black_list, regex |-> black_list_regex] = Generation(lastFile[1])

\* this step is one run of load_config
LoadRan == (wpc = "connected" /\ wpc' # "connected") \/ nLoads' = nLoads + 1

\* C4: when load_config cannot load the file (absent, permission denied, or
\* any failure while reading or compiling it), the exact list and the regex
\* are left as they were and the watcher keeps running.
C4_FailedLoadKeepsBlocklist ==
    [][(LoadRan /\ lload'.printed # "Loaded")
         => /\ black_list' = black_list
            /\ black_list_regex' = black_list_regex
            /\ wpc' \notin {"dead", "stopped"}]_vars


\* this step is one run of the relay's handler that reached the Notify call
RelayCalled == rlast' # rlast /\ rlast'.kind = "called"

\* request req carries the non-empty replace key and no replace id
PlainKeyed(req) ==
    /\ req.replace_old.t = "String"
    /\ req.replace_old.s # <<>>
    /\ req.replace_id \in {Missing, IntV(0)}

\* C5: of two consecutive requests carrying the same non-empty key K with
\* replace-id 0, the second is forwarded with replace_id = the id the first
\* call returned, and afterwards NOTIF_IDS holds for K the id the second call
\* returned, in the entry the first call made (no entry is added).
C5_SecondReplacesFirst ==
    [][(/\ nReqs' = nReqs + 1
        /\ rlast.kind = "called" /\ rlast.out = "ok" /\ PlainKeyed(rlast.req)
        /\ rlast'.kind = "called" /\ PlainKeyed(rlast'.req)
        /\ rlast'.req.replace_old = rlast.req.replace_old)
         => /\ rlast'.fwd.replace_id = rlast.nid
            /\ rlast'.out = "ok"
                 => /\ DOMAIN NOTIF_IDS' = DOMAIN NOTIF_IDS
                    /\ NOTIF_IDS'[rlast.req.replace_old.s] = rlast'.nid]_vars

\* two requests with the same key and no replace id were handled one after
\* the other, and the service answered the second with a new id
C5_Witness ==
    /\ rprev.kind = "called" /\ rprev.out = "ok" /\ rprev.rid = 0
    /\ rlast.kind = "called" /\ rlast.out = "ok" /\ PlainKeyed(rlast.req)
    /\ rprev.key = rlast.key
    /\ rlast.fwd.replace_id = rprev.nid
    /\ rlast.nid # rprev.nid
    /\ NOTIF_IDS[rlast.key] = rlast.nid

\* the notifications of screen sh that came from requests with key k
Live(sh, k) == { n \in sh : n.key = k }

LastSent == chan'[Len(chan')].req

\* C7: the key sent for a unit depends on (pid, unit) only: a unit's key,
\* once made, never changes and is what every notification for the unit
\* carries; no other unit, and no watcher with another pid, makes that key.
C7_KeyPerPidAndUnit ==
    [][/\ \A u \in DOMAIN notif_ids :
            u \in DOMAIN notif_ids' /\ notif_ids'[u] = notif_ids[u]
       /\ (WatcherRan /\ wlast'.kind = "notified")
            => /\ Len(chan') = Len(chan) + 1
               /\ LastSent.replace_old = StrV(notif_ids'[wlast'.unit])
       /\ \A u \in DOMAIN notif_ids', p \in Pids, v \in Units :
            NewKey(p, v) = notif_ids'[u] => (p = pid /\ v = u)]_vars

\* the same unit was notified twice, both requests carrying the same key
C7_Witness ==
    /\ Len(chan) = 2
    /\ chan[1].req.replace_old = chan[2].req.replace_old
    /\ chan[1].req.body # chan[2].req.body
    /\ wlast.kind = "notified"

\* C8: a request whose replace_id is negative is handled like one with
\* replace_id 0: the Notify call is made, with the id remembered for its key
\* if the key is non-empty and known, and 0 otherwise; the relay stays in
\* its loop.
C8_NegativeReplaceId ==
    [][(nReqs' = nReqs + 1 /\ rlast'.req.replace_id.t = "Int"
          /\ rlast'.req.replace_id.n < 0)
         => /\ rlast'.kind = "called"
            /\ rlast'.calls = 1
            /\ rpc' = "running"
            /\ rlast'.fwd.replace_id =
                 IF rlast'.key # <<>> /\ rlast'.key \in DOMAIN NOTIF_IDS
                 THEN NOTIF_IDS[rlast'.key] ELSE 0
            /\ rlast'.fwd =
                 RelayCall([rlast'.req EXCEPT !.replace_id = IntV(0)], NOTIF_IDS).fwd]_vars

\* a request with replace_id -1 and a known key was forwarded with the
\* remembered id
C8_Witness ==
    /\ rlast.kind = "called" /\ rlast.out = "ok"
    /\ rlast.req.replace_id = IntV(-1)
    /\ rlast.fwd.replace_id = rprev.nid
    /\ rprev.out = "ok" /\ rprev.key = rlast.key /\ rlast.key # <<>>

\* a text field that is a non-empty str; a number field that is a
\* non-negative int
GoodText(v) == v.t = "String" /\ v.s # <<>>
GoodNumber(v) == v.t = "Int" /\ v.n >= 0

\* C9, as claimed: for a dictionary request the relay makes exactly one
\* Notify call, each malformed field replaced by its default ("" for text,
\* 0 for replace_id, -1 for timeout), each well-formed field passed through.
C9_DefaultsAndPassThrough ==
    rlast.kind = "called"
      => /\ rlast.calls = 1
         /\ \A f \in TextFields :
              rlast.fwd[f] = IF GoodText(rlast.req[f]) THEN rlast.req[f].s ELSE <<>>
         /\ rlast.fwd.replace_id =
              IF GoodNumber(rlast.req.replace_id) THEN rlast.req.replace_id.n ELSE 0
         /\ rlast.fwd.timeout =
              IF GoodNumber(rlast.req.timeout) THEN rlast.req.timeout.n ELSE -1

\* values that isinstance(v, str) and isinstance(v, int) accept
AcceptedText(v) == v.t \in {"String", "ObjectPath"} /\ v.s # <<>>
AcceptedNumber(v) == v.t \in {"Int", "Boolean"} /\ v.n >= 0

\* C9, amended: for a dictionary request the relay makes exactly one Notify
\* call; a text field is passed through if it is a non-empty str and is ""
\* otherwise; timeout is forwarded as 1000 times the field if that is a
\* non-negative int and as -1 otherwise; replace_id is the field if that is
\* a non-negative int and 0 otherwise, and a 0 is replaced by the id
\* remembered for the request's key when there is one.  The relay stays in
\* its loop.
C9_DefaultsAndScaling ==
    [][(nReqs' = nReqs + 1 /\ rlast'.kind = "called")
         => /\ rlast'.calls = 1
            /\ rpc' = "running"
            /\ \A f \in TextFields :
                 rlast'.fwd[f] =
                   IF AcceptedText(rlast'.req[f]) THEN rlast'.req[f].s ELSE <<>>
            /\ rlast'.fwd.timeout =
                 IF AcceptedNumber(rlast'.req.timeout)
                 THEN 1000 * rlast'.req.timeout.n ELSE -1
            /\ LET own == IF AcceptedNumber(rlast'.req.replace_id)
                          THEN rlast'.req.replace_id.n ELSE 0
                   key == IF AcceptedText(rlast'.req.replace_old)
                          THEN rlast'.req.replace_old.s ELSE <<>>
               IN rlast'.fwd.replace_id =
                    IF own = 0 /\ key # <<>> /\ key \in DOMAIN NOTIF_IDS
                    THEN NOTIF_IDS[key] ELSE own]_vars

\* a request with a mistyped text field, a mistyped replace_id or a missing
\* timeout next to well-formed fields was forwarded
C9_Witness ==
    /\ rlast.kind = "called"
    /\ \/ rlast.req.app_icon.t = "Int" /\ rlast.fwd.timeout = 2000
       \/ rlast.req.replace_id.t = "String" /\ rlast.fwd.timeout = 2000
    /\ rlast.fwd.summary = <<"sum">>
    /\ rlast.fwd.replace_id # 0

\* C10: a signal that fails the shape check is dropped: no property read,
\* no notification, blocklist and unit map unchanged, and the watcher stays
\* in its loop with its connection open.
C10_BadSignalDropped ==
    [][(/\ WatcherRan
        /\ \/ Len(wlast'.args) # 4
           \/ wlast'.args[2].t # "ObjectPath"
           \/ wlast'.args[3].t # "String")
         => /\ wlast'.reads = 0
            /\ wlast'.kind \in {"bad_signal", "empty_signal"}
            /\ chan' = chan
            /\ notif_ids' = notif_ids
            /\ black_list' = black_list /\ black_list_regex' = black_list_regex
            /\ wpc' = "running" /\ bus' = "open" /\ loop' = "running"]_vars

\* a four-field signal whose unit field is not a string was dropped by a
\* watcher that has a blocklist loaded and has notified before
C10_Witness ==
    /\ wlast.kind = "bad_signal"
    /\ Len(wlast.args) = 4
    /\ wlast.args[3].t = "Int"
    /\ DOMAIN notif_ids # {}
    /\ black_list # <<>>

\* C11: when the ActiveState or the SubState read of a well-formed event
\* fails, the run stops at that read (it is made once), nothing is sent, the
\* unit map and the blocklist are unchanged and the watcher stays in its loop
\* with its connection open; a well-formed event handled after it whose reads
\* succeed is ignored or notified by the usual rule.
C11_ReadFailureDropsEvent ==
    [][/\ (WatcherRan /\ wlast'.kind = "exception")
            => /\ ~BadSignal(wlast'.args)
               /\ wlast'.reads \in {1, 2}
               /\ wlast'.sub_state = "" /\ wlast'.msg = <<>>
               /\ chan' = chan
               /\ notif_ids' = notif_ids
               /\ black_list' = black_list /\ black_list_regex' = black_list_regex
               /\ wpc' = "running" /\ bus' = "open" /\ loop' = "running"
       /\ (WatcherRan /\ wlast.kind = "exception" /\ Resolved(wlast'))
            => IF \/ wlast'.state = "active"
                  \/ /\ wlast'.state = "inactive"
                     /\ Blocklisted(wlast'.unit, black_list, black_list_regex)
               THEN wlast'.kind = "ignored" /\ chan' = chan
               ELSE /\ wlast'.kind = "notified"
                    /\ Len(chan') = Len(chan) + 1
                    /\ LastSent.body =
                         StrV(Msg(wlast'.unit, wlast'.state, wlast'.sub_state))]_vars

\* the SubState read of an event failed in a watcher that has notified
\* before: the earlier request is the only one on the bus
C11_Witness ==
    /\ wlast.kind = "exception"
    /\ wlast.reads = 2
    /\ wlast.state = "failed"
    /\ DOMAIN notif_ids # {}
    /\ Len(chan) = 1
    /\ wpc = "running" /\ bus = "open"

\* the watcher process has ended: loop.run() returned, or main() was left by
\* an exception
Stopped == wpc \in {"stopped", "dead"}

\* C12: once the termination handlers are set, a termination signal at any
\* moment, startup included, closes the connections and quits the loop: from
\* then on no bus event is dispatched to handle_dbus_signal, and the process
\* eventually stops instead of running on with closed connections.
C12_TerminationStops ==
    /\ [][(HandlersSet /\ bus = "closed") => ~WatcherRan]_vars
    /\ (HandlersSet /\ bus = "closed") ~> Stopped

\* the message the format of C13 gives for a unit name and the two states
Formatted(unit, active_state, sub_state) ==
    unit \o <<" becomes ", active_state>>
         \o (IF sub_state = active_state THEN <<>> ELSE <<" (", sub_state, ")">>)

\* C13, as claimed: the message built for an event is "<unit> becomes
\* <active_state>" with the name as it came in the signal, followed by
\* " (<sub_state>)" if and only if the sub-state differs from the active
\* state, for every name and every pair of states; it is the body sent.
C13_MessageFormat ==
    [][(WatcherRan /\ Resolved(wlast'))
         => /\ wlast'.msg = Formatted(wlast'.args[3].s, wlast'.state, wlast'.sub_state)
            /\ wlast'.kind = "notified" => LastSent.body = StrV(wlast'.msg)]_vars

\* C13, amended: in systemd_svc_watcher.py the message is "<unit> becomes
\* <active_state>" with the name as it came in the signal, followed by
\* " (<sub_state>)" if and only if the sub-state differs from the active
\* state; in sys_svc_watcher.py, which makes no SubState read, it is
\* "<unit> becomes <active_state>" whatever the sub-state.  In both it is the
\* body sent when the event is notified.
C13_MessageFormatPerFile ==
    [][(WatcherRan /\ Resolved(wlast'))
         => /\ wlast'.file = "systemd_svc_watcher.py"
                 => /\ wlast'.reads = 2
                    /\ wlast'.msg = Formatted(wlast'.args[3].s, wlast'.state,
                                              wlast'.sub_state)
            /\ wlast'.file = "sys_svc_watcher.py"
                 => /\ wlast'.reads = 1
                    /\ wlast'.msg = Formatted(wlast'.args[3].s, wlast'.state,
                                              wlast'.state)
            /\ wlast'.kind = "notified" => LastSent.body = StrV(wlast'.msg)]_vars

\* systemd_svc_watcher.py has notified for a name that escaping changes, the
\* sub-state differing from the active state: the body sent ends in the
\* sub-state and starts with the name as it came
C13_Witness ==
    /\ wlast.file = "systemd_svc_watcher.py"
    /\ wlast.kind = "notified"
    /\ wlast.sub_state # wlast.state
    /\ wlast.path # <<"/org/freedesktop/systemd1", "/unit/">> \o wlast.unit
    /\ Len(chan) = 1
    /\ chan[1].req.body.s = wlast.unit \o <<" becomes ", "failed", " (", "dead", ")">>

\* un-escaping by the reverse of a table: a code of the table read from the
\* left gives back its character, any other character stands for itself
RECURSIVE Unescape(_, _)
Unescape(table, s) ==
    IF s = <<>> THEN <<>>
    ELSE IF Len(s) >= 3 /\ \E i \in 1..Len(table) : table[i][2] = SubSeq(s, 1, 3)
    THEN LET i == CHOOSE j \in 1..Len(table) : table[j][2] = SubSeq(s, 1, 3)
         IN <<table[i][1]>> \o Unescape(table, SubSeq(s, 4, Len(s)))
    ELSE <<Head(s)>> \o Unescape(table, Tail(s))

\* the table of a source file, and the object path its handler makes of a name
TableOf(file) ==
    IF file = "sys_svc_watcher.py" THEN SVC_PATH_REPLACEMENTS_sys_svc_watcher
    ELSE SVC_PATH_REPLACEMENTS

PathOf(file, unit) ==
    IF file = "sys_svc_watcher.py" THEN LegacyUnitPath(unit) ELSE UnitPath(unit)

\* the characters of name that the table replaces
TableChars(table, name) ==
    { i \in 1..Len(name) : \E j \in 1..Len(table) : table[j][1] = name[i] }

\* the escaped name in the object path of the run recorded in ev
Escaped(ev) == SubSeq(ev.path, 3, Len(ev.path))

\* the escaping in the run recorded in ev is invertible: every table
\* character was replaced once by its three-character code, un-escaping
\* gives the name back, and no other name has the same object path
Invertible(ev) ==
    /\ Len(Escaped(ev)) = Len(ev.unit) + 2 * Cardinality(TableChars(TableOf(ev.file), ev.unit))
    /\ Unescape(TableOf(ev.file), Escaped(ev)) = ev.unit
    /\ \A v \in NameUnits : v # ev.unit => PathOf(ev.file, v) # ev.path

\* C14: the escaping applied by handle_dbus_signal (in either watcher file)
\* replaces each table character once and never re-escapes its own output,
\* so it is invertible: un-escaping by the reverse table gives back the
\* name, and two different names never get the same object path.
C14_EscapeInvertible ==
    [][(WatcherRan /\ wlast'.reads > 0) => Invertible(wlast')]_vars

\* C14 for systemd_svc_watcher.py alone, whose table starts with '_'
C14_EscapeInvertibleMain ==
    [][(WatcherRan /\ wlast'.reads > 0 /\ wlast'.file = "systemd_svc_watcher.py")
         => Invertible(wlast')]_vars

\* kinds of lines of the ignore list, after stripping
IsBlankLine(line) == Strip(line) = <<>>
IsCommentLine(line) == StartsWith(Strip(line), <<"#">>)
IsRegexLine(line) == StartsWith(Strip(line), RegexPrefix)
IsExactLine(line) == ~IsBlankLine(line) /\ ~IsCommentLine(line) /\ ~IsRegexLine(line)

\* C15: load_config ignores blank lines (whitespace-only lines and the empty
\* segment after a final newline included) and lines starting with '#':
\* after a load, the exact list holds one entry for each other line that is
\* not REGEX|-prefixed, in order, and nothing else; the regex is made of the
\* REGEX|-prefixed lines only.
C15_BlankAndCommentIgnored ==
    lload.printed = "Loaded"
      => LET lines == Split(lastFile[1], NL)
             exact == SelectSeq(lines, IsExactLine)
             regex == SelectSeq(lines, IsRegexLine)
         IN /\ black_list = [i \in 1..Len(exact) |-> Strip(exact[i])]
            /\ regex # <<>>
                 => black_list_regex =
                      Some(Join([i \in 1..Len(regex) |->
                                   RemovePrefix(Strip(regex[i]), RegexPrefix)], "|"))

\* the relay has answered the latest request of unit u, nothing is in flight
Answered(u) ==
    /\ chan = <<>>
    /\ wlast.kind = "notified" /\ wlast.unit = u
    /\ rlast.kind = "called" /\ rlast.out = "ok"
    /\ rlast.key = notif_ids[u]

\* C16, as claimed: after the watcher has notified for a unit, the value its
\* unit map holds for the unit is the identifier the relay's call returned
\* for that notification.
C16_MapHoldsReturnedId ==
    \A u \in DOMAIN notif_ids : Answered(u) => StrV(notif_ids[u]) = IntV(rlast.nid)

\* C16, amended: the value the unit map holds for a notified unit is the
\* replace key str(pid) + '|' + unit, stored before the request is sent; the
\* request carries that key as replace_old and no replace_id; nothing the
\* relay does or returns changes the unit map (the returned id is kept by the
\* relay, in NOTIF_IDS under that key); the next notification for the unit
\* sends the same key.
C16_MapHoldsReplaceKey ==
    [][/\ (WatcherRan /\ wlast'.kind = "notified")
            => /\ notif_ids'[wlast'.unit] = NewKey(pid, wlast'.unit)
               /\ wlast'.unit \in DOMAIN notif_ids
                    => notif_ids'[wlast'.unit] = notif_ids[wlast'.unit]
               /\ Len(chan') = Len(chan) + 1
               /\ LastSent.replace_old = StrV(notif_ids'[wlast'.unit])
               /\ LastSent.replace_id = Missing
       /\ rlast' # rlast
            => /\ notif_ids' = notif_ids
               /\ (rlast'.out = "ok" /\ rlast'.key # <<>>)
                    => NOTIF_IDS'[rlast'.key] = rlast'.nid]_vars

\* the relay has answered the second notification of a unit: the unit map
\* still holds the key, and the relay holds the id it returned under that key
C16_Witness ==
    /\ \E u \in DOMAIN notif_ids :
         /\ Answered(u)
         /\ notif_ids[u] = NewKey(pid, u)
         /\ NOTIF_IDS[notif_ids[u]] = rlast.nid
    /\ rprev.kind = "called" /\ rprev.key = rlast.key /\ rprev.out = "ok"
    /\ nEvents = 2

\* the files load_config loads without raising
GoodFiles == { f \in Files : LoadConfig("ok", f, <<>>, None).exc = "none" }

\* the exact list bl and the regex re belong to one generation of the
\* blocklist: nothing loaded, or what one file alone produces
SameGeneration(bl, re) ==
    \/ bl = <<>> /\ re = None
    \/ \E f \in GoodFiles : [list |-> bl, regex |-> re] = Generation(f)

\* C17: a reload triggered by SIGUSR1 never interleaves with a suppression
\* check: the exact list and the regex a check uses always belong to one
\* generation, never a list cleared and not refilled, never the new list
\* with the old regex.  (The check of a run uses the fields as that run
\* leaves them.)
C17_CheckSeesOneGeneration ==
    [][(WatcherRan /\ Resolved(wlast')) => SameGeneration(black_list', black_list_regex')]_vars

\* C18: a well-formed event whose ActiveState is neither "active" nor
\* "inactive" is always notified, whatever the exact list and the regex
\* hold, the unit being blocklisted or not: one request is sent, carrying
\* the message of the event.
C18_OtherStatesAlwaysNotified ==
    [][(WatcherRan /\ Resolved(wlast') /\ wlast'.state \notin {"active", "inactive"})
         => /\ wlast'.kind = "notified"
            /\ Len(chan') = Len(chan) + 1
            /\ LastSent.body = StrV(wlast'.msg)
            /\ wlast'.unit \in DOMAIN notif_ids']_vars

\* a failed unit that the blocklist names has been notified, after another
\* notification
C18_Witness ==
    /\ wlast.kind = "notified"
    /\ wlast.state = "failed"
    /\ Blocklisted(wlast.unit, black_list, black_list_regex)
    /\ nEvents = 2
    /\ Len(chan) = 2
    /\ chan[1].req.body # chan[2].req.body

\* this step is a run of handle_dbus_signal that an exception left: a failed
\* property read, or load_config failing in a SIGUSR1 handler run inside it
HandlerRaised == WatcherRan /\ wlast'.kind \in {"exception", "interrupted"}

\* this step is a run of the SIGUSR1 handler, outside handle_dbus_signal,
\* that an exception left
ReloadRaised == nLoads' = nLoads + 1 /\ ~WatcherRan /\ lload'.exc # "none"

\* the state after this step: connections closed, loop not running, the
\* process ended, nothing dispatched any more
ShutDown ==
    /\ bus' = "closed"
    /\ loop' # "running"
    /\ wpc' \in {"stopped", "dead"}
    /\ ~(wpc' = "running" /\ bus' = "open")

OwnReplaceId(req) ==
    IF AcceptedNumber(req.replace_id) THEN req.replace_id.n ELSE 0

OwnKey(req) ==
    IF AcceptedText(req.replace_old) THEN req.replace_old.s ELSE <<>>

\* C20: in the relay, a request whose replace_id is non-zero is forwarded
\* with exactly that id, the id remembered for its key never taking its
\* place; a request with an empty replace key is forwarded with its own id
\* and leaves NOTIF_IDS as it was; NOTIF_IDS loses no entry and changes only
\* at the request's own non-empty key, to the id the Notify call returned.
C20_ReplaceIdAndFrame ==
    [][(nReqs' = nReqs + 1)
         => /\ (rlast'.kind = "called" /\ OwnReplaceId(rlast'.req) # 0)
                 => rlast'.fwd.replace_id = OwnReplaceId(rlast'.req)
            /\ (rlast'.kind = "called" /\ OwnKey(rlast'.req) = <<>>)
                 => /\ rlast'.fwd.replace_id = OwnReplaceId(rlast'.req)
                    /\ NOTIF_IDS' = NOTIF_IDS
            /\ DOMAIN NOTIF_IDS \subseteq DOMAIN NOTIF_IDS'
            /\ \A k \in DOMAIN NOTIF_IDS' :
                 (k \notin DOMAIN NOTIF_IDS \/ NOTIF_IDS'[k] # NOTIF_IDS[k])
                   => /\ rlast'.kind = "called" /\ rlast'.out = "ok"
                      /\ k = OwnKey(rlast'.req)
                      /\ k # <<>>
                      /\ NOTIF_IDS'[k] = rlast'.nid]_vars

\* a request with replace_id 2 and a key whose remembered id is another one
\* was forwarded with 2, and the key now maps to the id returned
C20_Witness ==
    /\ rlast.kind = "called" /\ rlast.out = "ok"
    /\ rlast.req.replace_id = IntV(2)
    /\ rlast.key = K1
    /\ rprev.kind = "called" /\ rprev.out = "ok" /\ rprev.key = K1
    /\ rprev.nid # 2
    /\ rlast.fwd.replace_id = 2
    /\ NOTIF_IDS[K1] = rlast.nid

\* map d2 is map d with the entry of key k set to v and nothing else changed:
\* one entry more if k is new, the same entries otherwise
SetAt(d, d2, k, v) ==
    /\ DOMAIN d2 = DOMAIN d \cup {k}
    /\ d2[k] = v
    /\ \A x \in DOMAIN d : x # k => d2[x] = d[x]
    /\ Cardinality(DOMAIN d2) = Cardinality(DOMAIN d) + (IF k \in DOMAIN d THEN 0 ELSE 1)

\* C21: in the watcher's unit map and in the relay's NOTIF_IDS the first
\* notification for a key makes its entry, a later notification for the key
\* sets that same entry (the watcher's keeps the unit's key, the relay's
\* takes the id just returned) and adds none, every other entry is left as
\* it was, and no step removes an entry: the key sets only grow.
C21_MapsOnlyGrow ==
    [][/\ DOMAIN notif_ids \subseteq DOMAIN notif_ids'
       /\ DOMAIN NOTIF_IDS \subseteq DOMAIN NOTIF_IDS'
       /\ IF WatcherRan /\ wlast'.kind = "notified"
          THEN /\ SetAt(notif_ids, notif_ids', wlast'.unit, NewKey(pid, wlast'.unit))
               /\ wlast'.unit \in DOMAIN notif_ids
                    => notif_ids' = notif_ids
          ELSE notif_ids' = notif_ids
       /\ IF RelayCalled /\ rlast'.out = "ok" /\ rlast'.key # <<>>
          THEN SetAt(NOTIF_IDS, NOTIF_IDS', rlast'.key, rlast'.nid)
          ELSE NOTIF_IDS' = NOTIF_IDS]_vars

\* one unit has been notified twice: each map holds the one entry made the
\* first time, and the relay's entry now holds the id returned last, which
\* is not the one it held before
C21_Witness ==
    /\ nEvents = 2
    /\ Cardinality(DOMAIN notif_ids) = 1
    /\ Cardinality(DOMAIN NOTIF_IDS) = 1
    /\ rlast.kind = "called" /\ rlast.out = "ok"
    /\ rlast.fwd.replace_id # 0
    /\ rlast.nid # rlast.fwd.replace_id
    /\ NOTIF_IDS[rlast.key] = rlast.nid


(***************************************************************************)
(* Startup of either watcher: main() of systemd_svc_watcher.py, or start() *)
(* and the module's last lines in sys_svc_watcher.py.  wlast.file tells    *)
(* which file is running.  start() loads the ignore list before it         *)
(* connects; from set_signal_handlers() on both files run the same         *)
(* statements (Subscribe, add_signal_receiver, GLib.MainLoop().run()), so  *)
(* Main_Subscribe, Main_AddSignalReceiver and Main_RunLoop stand for both. *)
(* Reloads (SIGUSR1) are left out: they come after startup.                *)
(***************************************************************************)
RunsMain == wlast.file = NoEvent.file
RunsStart == wlast.file = LegacyNoEvent.file

\* start(): load_config(), run before sys.excepthook is set: an exception
\* that escapes it ends the process
Start_LoadConfig ==
    /\ RunsStart
    /\ wpc = "start"
    /\ \E in \in LoadInputs :
         \E r \in {LoadConfig(in[1], in[2], black_list, black_list_regex)} :
           /\ black_list' = r.list
           /\ black_list_regex' = r.regex
           /\ lload' = [fs |-> in[1], exc |-> r.exc, printed |-> r.printed]
           /\ lastFile' = IF r.read THEN Some(in[2]) ELSE lastFile
           /\ wpc' = IF r.exc = "none" THEN "l_loaded" ELSE "dead"
    /\ UNCHANGED <<pid, stdin_tty, bus, loop, notif_ids, wlast, nEvents, nLoads,
                   chan, rvars, nReqs>>

\* start(): system_bus = dbus.SystemBus()
Start_Connect ==
    /\ RunsStart
    /\ wpc = "l_loaded"
    /\ bus' = "open"
    /\ wpc' = "l_connected"
    /\ UNCHANGED <<pid, stdin_tty, loop, black_list, black_list_regex, notif_ids,
                   wlast, lload, lastFile, nEvents, nLoads, chan, rvars, nReqs>>

\* start(): sys.excepthook = handle_uncaught_exc; set_signal_handlers()
Start_SetSignalHandlers ==
    /\ RunsStart
    /\ wpc = "l_connected"
    /\ wpc' = "handlers"
    /\ UNCHANGED <<pid, stdin_tty, bus, loop, black_list, black_list_regex, notif_ids,
                   wlast, lload, lastFile, nEvents, nLoads, chan, rvars, nReqs>>

\* kill_me(sig) of sys_svc_watcher.py: system_bus.close(), then 'if loop:'.
\* The module binds loop only on its last line but one, so before that the
\* test raises NameError in the frame start() is in, and the process ends.
Start_KillMe ==
    /\ RunsStart
    /\ HandlersSet
    /\ bus' = "closed"
    /\ IF loop = "running"
       THEN loop' = "quit" /\ wpc' = "stopped"
       ELSE loop' = loop /\ wpc' = "dead"
    /\ UNCHANGED <<pid, stdin_tty, black_list, black_list_regex, notif_ids, wlast,
                   lload, lastFile, nEvents, nLoads, chan, rvars, nReqs>>

\* the running loop dispatches a signal to handle_dbus_signal of
\* sys_svc_watcher.py
Start_HandleDbusSignal ==
    /\ RunsStart
    /\ Dispatching
    /\ nEvents < MaxEvents
    /\ \E args \in Signals, r1 \in ReadOutcomes :
         \E sub \in (IF r1 = ReadFailed THEN {""} ELSE SubStatesOf(r1)) :
           \E h \in {LegacyHandleSignal(args, r1, sub, pid, black_list,
                                        black_list_regex, notif_ids)} :
              /\ Len(chan) + Len(h.sent) <= MaxChan
              /\ wlast' = h.ev
              /\ notif_ids' = h.ids
              /\ chan' = chan \o h.sent
    /\ nEvents' = nEvents + 1
    /\ UNCHANGED <<pid, stdin_tty, wpc, bus, loop, black_list, black_list_regex,
                   lload, lastFile, nLoads, rvars, nReqs>>

\* the actions of systemd_svc_watcher.py that differ from the other file's
Watcher_Connect == RunsMain /\ Main_Connect
Watcher_LoadConfig == RunsMain /\ Main_LoadConfig
Watcher_SetSignalHandlers == RunsMain /\ Main_SetSignalHandlers
Watcher_KillMe == RunsMain /\ KillMe
Watcher_HandleDbusSignal == RunsMain /\ HandleDbusSignal

\* either file, before its first statement
InitStart ==
    /\ pid \in Pids
    /\ stdin_tty \in BOOLEAN
    /\ wpc = "start"
    /\ bus = "none"
    /\ loop = "none"
    /\ black_list = <<>>
    /\ black_list_regex = None
    /\ notif_ids = EmptyDict
    /\ chan = <<>>
    /\ wlast \in {NoEvent, LegacyNoEvent}
    /\ lload = NoLoad
    /\ lastFile = None
    /\ nEvents = 0
    /\ nLoads = 0
    /\ NOTIF_IDS = EmptyDict
    /\ rlast = NoCall
    /\ rprev = Brief(NoCall)
    /\ rpc = "running"
    /\ nextId = 1
    /\ shown = {}
    /\ nReqs = 0

NextStart ==
    \/ Watcher_Connect
    \/ Watcher_LoadConfig
    \/ Watcher_SetSignalHandlers
    \/ Start_LoadConfig
    \/ Start_Connect
    \/ Start_SetSignalHandlers
    \/ Main_Subscribe
    \/ Main_AddSignalReceiver
    \/ Main_RunLoop
    \/ Watcher_KillMe
    \/ Start_KillMe
    \/ Watcher_HandleDbusSignal
    \/ Start_HandleDbusSignal

SpecStart == InitStart /\ [][NextStart]_vars

\* how far startup has come at each position of main() or start()
StartupRank(pc) ==
    CASE pc = "start" -> 0
      [] pc \in {"connected", "l_loaded"} -> 1
      [] pc \in {"loaded", "l_connected"} -> 2
      [] pc = "handlers" -> 3
      [] pc = "subscribed" -> 4
      [] pc = "registered" -> 5
      [] pc = "running" -> 6
      [] pc = "stopped" -> 7
      [] OTHER -> 8

\* load_config() has run and returned
BlocklistLoaded == lload # NoLoad /\ lload.exc = "none"

\* C22: startup goes one statement at a time and never back: the ignore
\* list has been loaded when Subscribe returns, Subscribe returns only once
\* (the position after it is entered only from the one before it), the
\* handler is registered only after that, the loop starts only after the
\* registration, and a signal is handed to handle_dbus_signal only while
\* the loop runs, so after the load and the Subscribe call.
C22_StartupOrder ==
    [][/\ wpc' # wpc =>
            \/ wpc' = "dead"
            \/ StartupRank(wpc') = StartupRank(wpc) + 1
       /\ (wpc' = "subscribed" /\ wpc # "subscribed") =>
            wpc = "handlers" /\ BlocklistLoaded /\ bus = "open"
       /\ (wpc' = "running" /\ wpc # "running") =>
            wpc = "registered" /\ loop = "none" /\ loop' = "running"
       /\ WatcherRan =>
            /\ wpc = "running" /\ loop = "running"
            /\ BlocklistLoaded]_vars

\* sys_svc_watcher.py has read an ignore list, gone through start() and
\* notified its first event from the running loop
C22_Witness ==
    /\ RunsStart
    /\ wpc = "running"
    /\ lload.fs = "ok"
    /\ nEvents = 1
    /\ wlast.kind = "notified"


\* the run recorded in ev was given a well-formed JobRemoved signal
WellFormed(ev) == ev.kind \notin {"none", "empty_signal", "bad_signal"}

\* the suppression decision the code makes from a unit name, an ActiveState
\* and the ignore list as it stands
Suppressed(unit, state, bl, re) ==
    \/ state = "active"
    \/ state = "inactive" /\ Blocklisted(unit, bl, re)

\* C23, as claimed: an event that reaches the suppression decision has made
\* two property reads of its own, ActiveState then SubState, against the
\* object path of its unit, and the decision and the message are made from
\* the two values just read, not from those of the event before.
C23_TwoReadsPerEvent ==
    [][(WatcherRan /\ Resolved(wlast'))
         => /\ wlast'.reads = 2
            /\ wlast'.path = PathOf(wlast'.file, wlast'.args[3].s)
            /\ wlast'.state \in ActiveStates
            /\ (wlast'.kind = "ignored")
                 <=> Suppressed(wlast'.unit, wlast'.state, black_list, black_list_regex)
            /\ wlast'.msg = Formatted(wlast'.unit, wlast'.state, wlast'.sub_state)]_vars

\* C23, amended: a well-formed event makes its own reads against the path
\* built from its own unit name by the file's escape table, which in
\* systemd_svc_watcher.py un-escapes to that name: two reads there
\* (ActiveState, then SubState), one in sys_svc_watcher.py (ActiveState).
\* A read that fails ends the handling at that read, with no decision, no
\* message and nothing sent.  Otherwise all reads are done before the
\* decision, and the decision and the message are made from this event's
\* name and the values just read (the sub-state entering the message only
\* in systemd_svc_watcher.py), whatever the event before had read.
C23_OwnReadsPerFile ==
    [][(WatcherRan /\ WellFormed(wlast'))
         => LET ev == wlast'
                reads == IF ev.file = "sys_svc_watcher.py" THEN 1 ELSE 2
            IN /\ ev.file = wlast.file
               /\ ev.unit = ev.args[3].s
               /\ ev.path = PathOf(ev.file, ev.unit)
               /\ ev.file = "systemd_svc_watcher.py"
                    => Unescape(SVC_PATH_REPLACEMENTS, Escaped(ev)) = ev.unit
               /\ IF Resolved(ev)
                  THEN /\ ev.reads = reads
                       /\ ev.state \in ActiveStates
                       /\ reads = 2 => ev.sub_state \in SubStatesOf(ev.state)
                       /\ (ev.kind = "ignored")
                            <=> Suppressed(ev.unit, ev.state, black_list,
                                           black_list_regex)
                       /\ ev.msg = Formatted(ev.unit, ev.state,
                                             IF reads = 2 THEN ev.sub_state
                                             ELSE ev.state)
                       /\ ev.kind = "notified" => LastSent.body = StrV(ev.msg)
                  ELSE /\ ev.kind = "exception"
                       /\ ev.reads \in 1..reads
                       /\ ev.msg = <<>>
                       /\ chan' = chan]_vars

\* systemd_svc_watcher.py has notified a unit as failed and then, for the
\* same unit, read "active" and "dead" and suppressed the event with a
\* message made of these two values
C23_Witness ==
    /\ RunsMain
    /\ nEvents = 2
    /\ wlast.kind = "ignored"
    /\ wlast.reads = 2
    /\ wlast.state = "active" /\ wlast.sub_state = "dead"
    /\ wlast.msg = wlast.unit \o <<" becomes ", "active", " (", "dead", ")">>
    /\ Len(chan) = 1
    /\ chan[1].req.body.s = wlast.unit \o <<" becomes ", "failed">>


\* C24, as claimed: the timeout of a request is forwarded to Notify as it
\* came if it is a non-negative integer (0 stays 0), and as -1 if it is
\* negative, missing or not an integer.
C24_TimeoutPassedAsIs ==
    [][(nReqs' = nReqs + 1 /\ rlast'.kind = "called")
         => LET t == rlast'.req.timeout
            IN rlast'.fwd.timeout = IF GoodNumber(t) THEN t.n ELSE DefaultTimeout]_vars

\* C24, amended: the timeout of a request counts seconds: a non-negative
\* integer t is forwarded to Notify as 1000 * t milliseconds (0 stays 0),
\* and a negative, missing or mistyped timeout as -1; the timeout changes
\* no other argument of the call.
C24_TimeoutInSeconds ==
    [][(nReqs' = nReqs + 1 /\ rlast'.kind = "called")
         => LET t == rlast'.req.timeout
                without == RelayCall([rlast'.req EXCEPT !.timeout = Missing],
                                     NOTIF_IDS).fwd
            IN /\ rlast'.fwd.timeout =
                    IF AcceptedNumber(t) THEN 1000 * t.n ELSE DefaultTimeout
               /\ t = IntV(0) => rlast'.fwd.timeout = 0
               /\ without.timeout = DefaultTimeout
               /\ [rlast'.fwd EXCEPT !.timeout = DefaultTimeout] = without]_vars

\* a request with timeout 2 and no replace_id was answered after being
\* forwarded with timeout 2000
C24_Witness ==
    /\ rlast.kind = "called" /\ rlast.out = "ok"
    /\ rlast.req.timeout = IntV(2)
    /\ rlast.req.replace_id = Missing
    /\ rlast.fwd.timeout = 2000

==========================================================================
